---- MODULE Spec2Model ----
(***************************************************************************)
(* A model of request handlers of the vibecheck backend:                   *)
(*                                                                         *)
(*   scan_directory     (services/codebase_service.py)  -> SpecScan        *)
(*   compute_analytics  (services/analytics_service.py) -> SpecAnalytics   *)
(*   generate_catchup_brief         (the same file)     -> SpecCatchup     *)
(*   both of them on one store                          -> SpecStore       *)
(*   generate_quiz, create_attempt, generate_insights   -> SpecSession     *)
(*                                                                         *)
(* Scores are fixed-point numbers in thousandths of a point (60 points is  *)
(* 60000), so that round(x, 2) is a real rounding step.  File contents are *)
(* abstracted to what the code reads from them: the number of lines, the   *)
(* number of import lines and the set of filename stems that occur in the  *)
(* text.  List indices are 0-based as in the source; TLA+ sequences are    *)
(* 1-based, so file idx is file_data[idx + 1].                             *)
(***************************************************************************)
EXTENDS Integers, Sequences, FiniteSets, TLC

VARIABLES
    \* ---- scan_directory ----
    pc,             \* position of the scan: discover, metrics, assess, done, raised
    directory,      \* the tree on disk, in os.walk order (environment)
    max_files,      \* argument of scan_directory
    discovered,     \* the (capped) list of discovered files
    file_data,      \* per-file metric dicts, in file_paths order
    batch_start,    \* loop variable of the batch loop
    ai_results,     \* dict global index -> gateway item
    gateway_calls,  \* the risk-assessment calls made so far: batch and kind of answer
    warned,         \* batch_starts for which the fallback warning was logged
    scan_result,    \* what scan_directory returned
    \* ---- analytics ----
    apc,            \* position of the analytics request
    attempts,       \* rows of the attempts table, in insertion order
    attempt_rows,   \* the rows as select(Attempt) returned them to the running request
    flat_evals,     \* flattened evaluation entries of the running request
    unique_texts,   \* deduplicated question texts sent to the classifier
    classify_resp,  \* what the gateway answered to the classification call
    topic_labels,   \* what _classify_questions returned
    analytics,      \* what compute_analytics returned
    \* ---- catch-up ----
    cpc,            \* position of the catch-up request
    catchup_topic,  \* the topic argument of generate_catchup_brief
    wrong_evals,    \* the entries kept by the topic and verdict filter
    catchup_calls,  \* the gateway calls of the running catch-up request
    catchup,        \* what generate_catchup_brief returned
    \* ---- requests on one session ----
    session_status, \* the status column of the session row
    quizzes,        \* ids of the session's Quiz rows, in insertion order
    session_attempts, \* quiz_id of each Attempt row of the session, in insertion order
    insights,       \* number of Insight rows of the session
    requests        \* per request: handler, position, what it loaded, response

scanVars == <<pc, directory, max_files, discovered, file_data, batch_start,
              ai_results, gateway_calls, warned, scan_result>>
anVars == <<apc, attempts, attempt_rows, flat_evals, unique_texts, classify_resp,
            topic_labels, analytics>>
cuVars == <<cpc, catchup_topic, wrong_evals, catchup_calls, catchup>>
reqVars == <<session_status, quizzes, session_attempts, insights, requests>>
vars == <<scanVars, anVars, cuVars, reqVars>>

\* Points to the fixed-point unit (thousandths of a point).
Pts(x) == x * 1000

Min(a, b) == IF a <= b THEN a ELSE b
Max(a, b) == IF a >= b THEN a ELSE b

\* round(total / n, 2) for n > 0, in thousandths: the hundredth nearest to the
\* exact mean, half to even.
RoundMean2(total, n) ==
    LET lo == (total \div (10 * n)) * 10
        twice_rem == 2 * (total - lo * n)
    IN  IF twice_rem < 10 * n THEN lo
        ELSE IF twice_rem > 10 * n THEN lo + 10
        ELSE IF (lo \div 10) % 2 = 0 THEN lo ELSE lo + 10

\* round(x, 2)
Round2(x) == RoundMean2(x, 1)

\* list.sort(key=..., reverse=True) on integer keys: descending by key, equal
\* keys keep their order.  keys[i] is the key of s[i].
StableSortDesc(s, keys) ==
    LET n == Len(s)
        Rank(i) == 1 + Cardinality({j \in 1..n :
                        keys[j] > keys[i] \/ (keys[j] = keys[i] /\ j < i)})
    IN  [p \in 1..n |-> s[CHOOSE i \in 1..n : Rank(i) = p]]

\* float("nan"), json.loads("NaN"): a float that is neither below, above nor
\* equal to any float.  The integer stands for it among the fixed-point
\* scores, which never come near it.
NaN == 0 - 1000000000

\* a < b, a >= b and a == b on Python floats.
Lt(a, b) == a # NaN /\ b # NaN /\ a < b
Geq(a, b) == a # NaN /\ b # NaN /\ a >= b
FloatEq(a, b) == a # NaN /\ b # NaN /\ a = b

Reverse(s) == [i \in 1..Len(s) |-> s[Len(s) + 1 - i]]

\* count_run of listsort: the end of the run that starts at position 1, which
\* is strictly descending (desc) or non-descending.  order holds positions
\* of keys.
RECURSIVE RunEnd(_, _, _, _)
RunEnd(order, keys, run, desc) ==
    IF run >= Len(order) THEN run
    ELSE LET lt == Lt(keys[order[run + 1]], keys[order[run]])
         IN  IF (desc /\ lt) \/ (~desc /\ ~lt)
             THEN RunEnd(order, keys, run + 1, desc)
             ELSE run

\* The binary search of binarysort: where in order[l..r-1] the pivot goes.
RECURSIVE FindSlot(_, _, _, _, _)
FindSlot(order, keys, pivot, l, r) ==
    IF l >= r THEN l
    ELSE LET p == l + ((r - l) \div 2)
         IN  IF Lt(pivot, keys[order[p]])
             THEN FindSlot(order, keys, pivot, l, p)
             ELSE FindSlot(order, keys, pivot, p + 1, r)

\* Move the element at position from down to position to, shifting the
\* elements between them up by one.
MoveDown(order, from, to) ==
    [i \in 1..Len(order) |->
        IF i < to \/ i > from THEN order[i]
        ELSE IF i = to THEN order[from]
        ELSE order[i - 1]]

\* binarysort: order[1..start-1] is the run; the rest is inserted one by one.
RECURSIVE BinarySort(_, _, _)
BinarySort(order, keys, start) ==
    IF start > Len(order) THEN order
    ELSE BinarySort(
            MoveDown(order, start,
                     FindSlot(order, keys, keys[order[start]], 1, start)),
            keys, start + 1)

\* list.sort(key=..., reverse=True) of CPython on a list shorter than 64 (one
\* run, extended by binary insertion; only < is ever asked of the keys): the
\* list is reversed, sorted ascending, and reversed again.
ListSortReverse(s, keys) ==
    LET n == Len(s)
        start == Reverse([i \in 1..n |-> i])
        desc == Lt(keys[start[2]], keys[start[1]])
        run == RunEnd(start, keys, 2, desc)
        withRun == IF desc
                   THEN [i \in 1..n |-> IF i <= run THEN start[run + 1 - i]
                                        ELSE start[i]]
                   ELSE start
        order == IF n < 2 THEN start
                 ELSE Reverse(BinarySort(withRun, keys, run + 1))
    IN  [p \in 1..n |-> s[order[p]]]

\* s[:m] of Python, for any integer m.
SliceTo(s, m) ==
    LET stop == IF m >= 0 THEN Min(m, Len(s)) ELSE Max(Len(s) + m, 0)
    IN  SubSeq(s, 1, stop)

(***************************************************************************)
(* The environment of a scan: directories and gateway responses.           *)
(***************************************************************************)

\* Bound: the largest number of matching files a walked tree holds.
MaxDiscovered == 12
\* Bound: the longest item list a risk-assessment response holds.
MaxItems == 2

batch_size == 10

\* The kinds of file a walked tree holds.  size is os.path.getsize; lines,
\* imports and mentions describe the text on disk; an unreadable file raises
\* OSError/UnicodeDecodeError when opened.
FileKinds == <<
    [stem |-> "auth",  size |-> 300, readable |-> TRUE,  lines |-> 50,
     imports |-> 2, mentions |-> {"auth", "views"}],
    [stem |-> "db",    size |-> 120, readable |-> TRUE,  lines |-> 7,
     imports |-> 1, mentions |-> {"auth", "views"}],
    [stem |-> "views", size |-> 300, readable |-> TRUE,  lines |-> 400,
     imports |-> 3, mentions |-> {"auth", "db"}],
    [stem |-> "blob",  size |-> 50,  readable |-> FALSE, lines |-> 9,
     imports |-> 1, mentions |-> {"db"}] >>

Layouts == 0 .. (Len(FileKinds) - 1)

\* A tree of n files: file i (its path) is of kind (i - 1 + layout) mod 4.
Directory(n, layout) ==
    [i \in 1..n |->
        LET k == FileKinds[((i - 1 + layout) % Len(FileKinds)) + 1]
        IN  [path |-> i, stem |-> k.stem, size |-> k.size,
             readable |-> k.readable, lines |-> k.lines,
             imports |-> k.imports, mentions |-> k.mentions]]

\* ScanRequest.max_files is an unconstrained int (default 50).
MaxFilesChoices == {-1, 0, 2, 50}

\* Pinned file paths read from the focus store.
focus_paths == {2}

\* JSON values of the fields of a response item.
Absent == [t |-> "absent", v |-> 0]
Num(x) == [t |-> "num", v |-> x]
NonNumeric == [t |-> "bad", v |-> 0]      \* "high", null, a list: float() raises
NotANumber == [t |-> "nan", v |-> 0]      \* NaN, "nan": float() gives nan

AiFactors == <<"No comments", "Deep nesting">>
AiBlast == [text |-> "Login breaks for every user", n |-> 0]
NoFactors == <<>>

\* shape: "dict" (an object whose "index" is an int), "notdict" (a string,
\* number, null or list), "noindex" (an object without "index"), "badindex"
\* (an object whose "index" is a string or null).
DictItem(i, score) ==
    [shape |-> "dict", index |-> i, risk_score |-> score,
     has_factors |-> TRUE, risk_factors |-> AiFactors,
     has_blast |-> TRUE, blast_radius |-> AiBlast]
BareItem(i) ==
    [shape |-> "dict", index |-> i, risk_score |-> Absent,
     has_factors |-> FALSE, risk_factors |-> NoFactors,
     has_blast |-> FALSE, blast_radius |-> [text |-> "", n |-> 0]]
Malformed(shape) == [BareItem(0) EXCEPT !.shape = shape]

ItemChoices ==
    { DictItem(0, Num(72456)), DictItem(0, Num(Pts(150))),
      DictItem(0, Num(Pts(-5))), DictItem(0, NonNumeric), BareItem(0),
      DictItem(0, NotANumber),
      DictItem(-1, Num(72456)), DictItem(batch_size, Num(72456)),
      Malformed("notdict"), Malformed("noindex"), Malformed("badindex") }

ItemLists == UNION { [1..k -> ItemChoices] : k \in 0..MaxItems }

\* What one risk-assessment call can produce: "exception" (the call or
\* _get_client raises), "unparsable" (json.loads raises), "nonlist" (JSON
\* that is no list and fails when iterated: null, a number, a non-empty
\* object or string), "emptyish" ({} or "": iterates zero times), "list".
Responses ==
    { [kind |-> k, items |-> <<>>] :
        k \in {"exception", "unparsable", "nonlist", "emptyish"} }
    \cup { [kind |-> "list", items |-> l] : l \in ItemLists }

(***************************************************************************)
(* scan_directory                                                          *)
(***************************************************************************)

\* CapDiscovered with the slice forgotten: the list is sorted and kept whole.
CapDiscovered_NoSlice(found, cap) ==
    IF Len(found) > cap
    THEN StableSortDesc(found, [i \in 1..Len(found) |-> found[i].size])
    ELSE found

\* CapDiscovered with reverse=True forgotten: sorted by size ascending.
CapDiscovered_Ascending(found, cap) ==
    IF Len(found) > cap
    THEN SliceTo(StableSortDesc(found, [i \in 1..Len(found) |-> 0 - found[i].size]), cap)
    ELSE found

\* Step 1, the cap: the largest max_files files, by size.
CapDiscovered(found, cap) ==
    IF Len(found) > cap
    THEN SliceTo(StableSortDesc(found, [i \in 1..Len(found) |-> found[i].size]), cap)
    ELSE found

\* FileMetrics keeping what was read before the failure.
FileMetrics_KeepsContent(f) ==
    [path |-> f.path, stem |-> f.stem,
     line_count |-> IF f.readable THEN f.lines ELSE 0,
     import_count |-> IF f.readable THEN f.imports ELSE 0,
     content |-> f.mentions]

\* Step 2: the metric dict of one file (content is "" when the read fails).
FileMetrics(f) ==
    [path |-> f.path, stem |-> f.stem,
     line_count |-> IF f.readable THEN f.lines ELSE 0,
     import_count |-> IF f.readable THEN f.imports ELSE 0,
     content |-> IF f.readable THEN f.mentions ELSE {}]

\* ImportWeight without the "if other_idx == idx: continue".
ImportWeight_CountsSelf(metrics, i) ==
    Cardinality({j \in 1..Len(metrics) : metrics[i].stem \in metrics[j].content})

\* Step 3: how many other files' content contains the stem of file i.
ImportWeight(metrics, i) ==
    Cardinality({j \in 1..Len(metrics) :
                    j # i /\ metrics[i].stem \in metrics[j].content})

\* _metric_based_score without the outer min(100.0, ...).
_metric_based_score_NoCap(import_count, line_count, import_weight) ==
    import_weight * Pts(10) + Min(line_count * 200, Pts(50))

_metric_based_score(import_count, line_count, import_weight) ==
    Min(Pts(100), import_weight * Pts(10) + Min(line_count * 200, Pts(50)))

\* An item the loop body handles without raising.
WellFormed(item) == item.shape = "dict"

\* ai_results[g] = item
Put(res, g, item) ==
    [x \in (DOMAIN res) \cup {g} |-> IF x = g THEN item ELSE res[x]]

\* for item in parsed: ai_results[batch_start + item["index"]] = item
\* (stops at the first item that raises; what was stored stays stored)
RECURSIVE StoreItems(_, _, _)
StoreItems(res, start, items) ==
    IF items = <<>> THEN res
    ELSE IF ~WellFormed(Head(items)) THEN res
    ELSE StoreItems(Put(res, start + Head(items).index, Head(items)),
                    start, Tail(items))

\* The try block of one batch raises (and the except clause logs the warning).
BatchRaises(resp) ==
    \/ resp.kind \in {"exception", "unparsable", "nonlist"}
    \/ resp.kind = "list" /\ \E i \in 1..Len(resp.items) : ~WellFormed(resp.items[i])

HandleResponse(res, start, resp) ==
    IF resp.kind = "list" THEN StoreItems(res, start, resp.items) ELSE res

\* Step 5: float(ai.get("risk_score", 0)) raises for file idx.
ScoreRaises(res, idx) == idx \in DOMAIN res /\ res[idx].risk_score.t = "bad"

MetricBlast(weight) ==
    IF weight > 0 THEN [text |-> "Imported by N module(s)", n |-> weight]
    ELSE [text |-> "No direct imports detected", n |-> 0]

\* Step 5: the result entry of file idx (0-based).
ResultFile(res, fdata, idx) ==
    LET fd == fdata[idx + 1]
        ai == idx \in DOMAIN res
        risk_score ==
            IF ai
            THEN (IF res[idx].risk_score.t = "num" THEN res[idx].risk_score.v
                  ELSE IF res[idx].risk_score.t = "nan" THEN NaN
                  ELSE 0)
            ELSE _metric_based_score(fd.import_count, fd.line_count, fd.import_weight)
    IN  [path |-> fd.path, line_count |-> fd.line_count,
         import_count |-> fd.import_count,
         risk_score |-> IF risk_score = NaN THEN NaN ELSE Round2(risk_score),
         risk_factors |-> IF ai
                          THEN (IF res[idx].has_factors THEN res[idx].risk_factors
                                ELSE NoFactors)
                          ELSE NoFactors,
         blast_radius |-> IF ai
                          THEN (IF res[idx].has_blast THEN res[idx].blast_radius
                                ELSE [text |-> "", n |-> 0])
                          ELSE MetricBlast(fd.import_weight),
         is_focus |-> fd.path \in focus_paths]

\* result_files.sort(key=risk_score, reverse=True)
SortByRisk(files) ==
    ListSortReverse(files, [i \in 1..Len(files) |-> files[i].risk_score])

NoResult == [status |-> "none", file_count |-> 0, files |-> <<>>]
Returned(files) == [status |-> "ok", file_count |-> Len(files), files |-> files]

\* No request is in flight and the session is as create_session left it.
MaxRequests == 3

Requests == 1..MaxRequests

NoRequest == [kind |-> "none", pc |-> "off", status |-> "", quiz |-> 0, response |-> 0]

ReqIdle ==
    /\ session_status = "pending_quiz"
    /\ quizzes = <<>>
    /\ session_attempts = <<>>
    /\ insights = 0
    /\ requests = [r \in Requests |-> NoRequest]

NoCatchup == [status |-> "none", brief |-> "", source_session_ids |-> <<>>]

CatchupIdle ==
    /\ cpc = "off"
    /\ catchup_topic = ""
    /\ wrong_evals = <<>>
    /\ catchup_calls = <<>>
    /\ catchup = NoCatchup

AnIdle ==
    /\ CatchupIdle
    /\ apc = "off"
    /\ attempts = <<>>
    /\ attempt_rows = <<>>
    /\ flat_evals = <<>>
    /\ unique_texts = <<>>
    /\ classify_resp = [kind |-> "none", labels |-> <<>>]
    /\ topic_labels = <<>>
    /\ analytics = [status |-> "none"]

ScanInit ==
    /\ pc = "discover"
    /\ \E n \in 0..MaxDiscovered, layout \in Layouts : directory = Directory(n, layout)
    /\ max_files \in MaxFilesChoices
    /\ discovered = <<>>
    /\ file_data = <<>>
    /\ batch_start = 0
    /\ ai_results = [x \in {} |-> BareItem(0)]
    /\ gateway_calls = <<>>
    /\ warned = {}
    /\ scan_result = NoResult
    /\ AnIdle
    /\ ReqIdle

\* Step 1: walk, cap, early return when nothing matched.
Discover ==
    /\ pc = "discover"
    /\ discovered' = CapDiscovered(directory, max_files)
    /\ IF discovered' = <<>>
       THEN pc' = "done" /\ scan_result' = Returned(<<>>)
       ELSE pc' = "metrics" /\ UNCHANGED scan_result
    /\ UNCHANGED <<directory, max_files, file_data, batch_start, ai_results,
                   gateway_calls, warned, anVars, cuVars, reqVars>>

\* Steps 2 and 3: metrics of every file, then the import weights.
ComputeMetrics ==
    /\ pc = "metrics"
    /\ LET metrics == [i \in 1..Len(discovered) |-> FileMetrics(discovered[i])]
       IN  file_data' =
             [i \in 1..Len(metrics) |->
                [path |-> metrics[i].path, stem |-> metrics[i].stem,
                 line_count |-> metrics[i].line_count,
                 import_count |-> metrics[i].import_count,
                 content |-> metrics[i].content,
                 import_weight |-> ImportWeight(metrics, i)]]
    /\ pc' = "assess"
    /\ UNCHANGED <<directory, max_files, discovered, batch_start, ai_results,
                   gateway_calls, warned, scan_result, anVars, cuVars, reqVars>>

\* NextBatchStart leaving the loop at the first failed batch.
NextBatchStart_StopOnFailure(start, raised, n) ==
    IF raised THEN n ELSE start + batch_size

\* range(0, len(file_data), batch_size): the next batch_start, whether or not
\* the try block of this batch raised.
NextBatchStart(start, raised, n) == start + batch_size

\* len(file_data[batch_start : batch_start + batch_size])
BatchLen(n, start) == Min(batch_size, n - start)

\* Step 4: one iteration of the batch loop, with the gateway's answer.
AssessBatch ==
    /\ pc = "assess"
    /\ batch_start < Len(file_data)
    /\ \E resp \in Responses :
          /\ ai_results' = HandleResponse(ai_results, batch_start, resp)
          /\ warned' = IF BatchRaises(resp) THEN warned \cup {batch_start} ELSE warned
          /\ gateway_calls' = Append(gateway_calls,
                [batch_start |-> batch_start,
                 count |-> BatchLen(Len(file_data), batch_start),
                 kind |-> resp.kind,
                 raised |-> BatchRaises(resp)])
          /\ batch_start' = NextBatchStart(batch_start, BatchRaises(resp), Len(file_data))
    /\ UNCHANGED <<pc, directory, max_files, discovered, file_data,
                   scan_result, anVars, cuVars, reqVars>>

\* Step 5: build, sort and return the result; float() of a non-numeric
\* risk_score propagates out of scan_directory.
BuildResult ==
    /\ pc = "assess"
    /\ batch_start >= Len(file_data)
    /\ IF \E idx \in 0..(Len(file_data) - 1) : ScoreRaises(ai_results, idx)
       THEN pc' = "raised" /\ UNCHANGED scan_result
       ELSE /\ pc' = "done"
            /\ scan_result' = Returned(SortByRisk(
                   [i \in 1..Len(file_data) |-> ResultFile(ai_results, file_data, i - 1)]))
    /\ UNCHANGED <<directory, max_files, discovered, file_data, batch_start,
                   ai_results, gateway_calls, warned, anVars, cuVars, reqVars>>

ScanNext == Discover \/ ComputeMetrics \/ AssessBatch \/ BuildResult

SpecScan == ScanInit /\ [][ScanNext]_vars

(***************************************************************************)
(* The evaluation store and the classification gateway                     *)
(***************************************************************************)

\* Bound: the largest number of rows of the attempts table.
MaxAttempts == 2
\* Bound: the longest label list a classification response holds.
MaxLabels == 3

DefaultLabel == "General Concepts"

SessionRows == <<[id |-> 1, title |-> "Auth refactor"],
                 [id |-> 2, title |-> "Async worker"]>>

\* Two quizzes; the first question of each has the same text.
QuizRows == <<
    [id |-> 1, session_id |-> 1,
     questions |-> <<[id |-> 1, question |-> "How is the token verified?"],
                     [id |-> 2, question |-> "Why an index on user_id?"]>>],
    [id |-> 2, session_id |-> 2,
     questions |-> <<[id |-> 1, question |-> "How is the token verified?"],
                     [id |-> 2, question |-> "What does await yield to?"]>>] >>

Ev(qid, score, verdict) == [question_id |-> qid, score |-> score, verdict |-> verdict]
Ans(qid, text) == [question_id |-> qid, answer_text |-> text]

\* What submit_attempt can store: the answers of the request and the
\* evaluations the evaluator returned for them (never an empty list; the
\* scores are whatever JSON numbers the evaluator wrote).
Submissions == {
    [session_id |-> 1, quiz_id |-> 1,
     answers |-> <<Ans(1, "checks the signature"), Ans(2, "faster joins")>>,
     evaluations |-> <<Ev(1, 59996, "partial"), Ev(2, Pts(100), "correct")>>],
    [session_id |-> 2, quiz_id |-> 2,
     answers |-> <<Ans(1, "compares the hash"), Ans(2, "the caller")>>,
     evaluations |-> <<Ev(1, 59996, "incorrect"), Ev(2, 0, "incorrect")>>],
    [session_id |-> 1, quiz_id |-> 1,
     answers |-> <<Ans(1, "decodes the payload"), Ans(2, "unique constraint")>>,
     evaluations |-> <<Ev(1, Pts(60), "correct"), Ev(2, Pts(40), "partial")>>],
    [session_id |-> 1, quiz_id |-> 1,
     answers |-> <<Ans(3, "no idea")>>,
     evaluations |-> <<Ev(3, Pts(80), "correct")>>] }

LabelChoices == {"Security", "security", DefaultLabel}

\* What the classification call can produce: "exception" (the call or
\* _get_client raises: gateway unavailable, timeout), "unparsable" (json.loads
\* raises), "nonlist" (JSON that is no list), "list" (a JSON list of labels).
ClassifyResponses ==
    { [kind |-> k, labels |-> <<>>] : k \in {"exception", "unparsable", "nonlist"} }
    \cup { [kind |-> "list", labels |-> l] :
             l \in UNION { [1..k -> LabelChoices] : k \in 0..MaxLabels } }

NoResponse == [kind |-> "none", labels |-> <<>>]

(***************************************************************************)
(* _classify_questions and compute_analytics                               *)
(***************************************************************************)

Repeat(x, n) == [i \in 1..n |-> x]

RECURSIVE SumSeq(_)
SumSeq(s) == IF s = <<>> THEN 0 ELSE Head(s) + SumSeq(Tail(s))

RECURSIVE FirstSeen(_)
\* The distinct elements of s, in order of first occurrence.
FirstSeen(s) ==
    IF s = <<>> THEN <<>>
    ELSE LET init == FirstSeen(SubSeq(s, 1, Len(s) - 1))
             x == s[Len(s)]
         IN  IF \E i \in 1..Len(init) : init[i] = x THEN init ELSE Append(init, x)

IndexOf(s, x) == CHOOSE i \in 1..Len(s) : s[i] = x

\* _classify_questions without the padding of a short list.
_classify_questions_NoPad(question_texts, resp) ==
    IF resp.kind \in {"unparsable", "nonlist"}
    THEN Repeat(DefaultLabel, Len(question_texts))
    ELSE SubSeq(resp.labels, 1, Min(Len(resp.labels), Len(question_texts)))

\* _classify_questions whose except clause returns a single default label.
_classify_questions_OneDefault(question_texts, resp) ==
    IF resp.kind \in {"unparsable", "nonlist"}
    THEN <<DefaultLabel>>
    ELSE LET topics == IF Len(resp.labels) < Len(question_texts)
                       THEN resp.labels \o Repeat(DefaultLabel,
                                Len(question_texts) - Len(resp.labels))
                       ELSE resp.labels
         IN  SubSeq(topics, 1, Len(question_texts))

\* What _classify_questions returns for a non-empty input once the gateway
\* call has returned text.
_classify_questions(question_texts, resp) ==
    IF resp.kind \in {"unparsable", "nonlist"}
    THEN Repeat(DefaultLabel, Len(question_texts))
    ELSE LET topics == IF Len(resp.labels) < Len(question_texts)
                       THEN resp.labels \o Repeat(DefaultLabel,
                                Len(question_texts) - Len(resp.labels))
                       ELSE resp.labels
         IN  SubSeq(topics, 1, Len(question_texts))

\* question_lookup.get((quiz_id, qid), {}).get("question", "")
QuestionText(quiz_id, qid) ==
    LET hits == {<<i, j>> \in (1..Len(QuizRows)) \X (1..2) :
                    /\ QuizRows[i].id = quiz_id
                    /\ j <= Len(QuizRows[i].questions)
                    /\ QuizRows[i].questions[j].id = qid}
    IN  IF hits = {} THEN ""
        ELSE LET h == CHOOSE h \in hits : TRUE
             IN  QuizRows[h[1]].questions[h[2]].question

SessionTitle(sid) ==
    IF \E i \in 1..Len(SessionRows) : SessionRows[i].id = sid
    THEN SessionRows[CHOOSE i \in 1..Len(SessionRows) : SessionRows[i].id = sid].title
    ELSE "Session N"

\* attempt.created_at.date().isoformat(): two ticks of the clock per day.
DateOf(created_at) == created_at \div 2

RECURSIVE FlattenEvals(_)
\* Section 3: one entry per evaluation of every attempt, in row order.
FlattenEvals(rows) ==
    IF rows = <<>> THEN <<>>
    ELSE LET a == Head(rows)
         IN  [i \in 1..Len(a.evaluations) |->
                [question_id |-> a.evaluations[i].question_id,
                 quiz_id |-> a.quiz_id,
                 question_text |-> QuestionText(a.quiz_id, a.evaluations[i].question_id),
                 session_id |-> a.session_id,
                 session_title |-> SessionTitle(a.session_id),
                 score |-> a.evaluations[i].score,
                 verdict |-> a.evaluations[i].verdict,
                 date |-> DateOf(a.created_at)]]
             \o FlattenEvals(Tail(rows))

\* UniqueTexts without the "if text not in seen".
UniqueTexts_NoDedup(evals) == [i \in 1..Len(evals) |-> evals[i].question_text]

\* Section 4: the deduplicated texts sent to the classifier.
UniqueTexts(evals) == FirstSeen([i \in 1..Len(evals) |-> evals[i].question_text])

\* ev["topic"]
TopicOf(ev, texts, labels) == labels[IndexOf(texts, ev.question_text)]

\* Section 4, ev["topic"] = text_to_topic.get(...): the entries with their
\* topic written into them.
WithTopics(evals, texts, labels) ==
    [i \in 1..Len(evals) |->
        [question_id |-> evals[i].question_id,
         quiz_id |-> evals[i].quiz_id,
         question_text |-> evals[i].question_text,
         session_id |-> evals[i].session_id,
         session_title |-> evals[i].session_title,
         score |-> evals[i].score,
         verdict |-> evals[i].verdict,
         date |-> evals[i].date,
         topic |-> TopicOf(evals[i], texts, labels)]]

\* Section 5: is_blind_spot, computed from the unrounded mean.
IsBlindSpot(total, count) == total < Pts(60) * count /\ count >= 2

\* TopicStat counting each question text once.
TopicStat_Dedup(topic, evals, texts, labels) ==
    LET mine   == {i \in 1..Len(evals) : TopicOf(evals[i], texts, labels) = topic}
        scores == [i \in 1..Len(evals) |-> IF i \in mine THEN evals[i].score ELSE 0]
        total  == SumSeq(scores)
        count  == Cardinality(mine)
    IN  [topic |-> topic,
         avg_score |-> RoundMean2(total, count),
         question_count |-> Cardinality({evals[i].question_text : i \in mine}),
         sessions_appeared_in |-> Cardinality({evals[i].session_id : i \in mine}),
         is_blind_spot |-> IsBlindSpot(total, count)]

\* Section 5: the stats of one topic.
TopicStat(topic, evals, texts, labels) ==
    LET mine   == {i \in 1..Len(evals) : TopicOf(evals[i], texts, labels) = topic}
        scores == [i \in 1..Len(evals) |-> IF i \in mine THEN evals[i].score ELSE 0]
        total  == SumSeq(scores)
        count  == Cardinality(mine)
    IN  [topic |-> topic,
         avg_score |-> RoundMean2(total, count),
         question_count |-> count,
         sessions_appeared_in |-> Cardinality({evals[i].session_id : i \in mine}),
         is_blind_spot |-> IsBlindSpot(total, count)]

\* Section 5: one TopicStat per topic, in order of first occurrence.
TopicScores(evals, texts, labels) ==
    LET topics == FirstSeen([i \in 1..Len(evals) |-> TopicOf(evals[i], texts, labels)])
    IN  [k \in 1..Len(topics) |-> TopicStat(topics[k], evals, texts, labels)]

\* BlindSpots filtering on the rounded average alone, without the count.
BlindSpots_LowAverage(topic_scores) ==
    LET Low(t) == t.avg_score < Pts(60) IN SelectSeq(topic_scores, Low)

\* Line 218: the flagged topics, in topic_scores order.
BlindSpots(topic_scores) ==
    LET Flagged(t) == t.is_blind_spot IN SelectSeq(topic_scores, Flagged)

\* LatestAttempt with the comparison turned around: the oldest row is kept.
LatestAttempt_Earliest(rows, sid) ==
    LET mine == {i \in 1..Len(rows) : rows[i].session_id = sid}
        best == CHOOSE i \in mine :
                    \A j \in mine : \/ rows[j].created_at > rows[i].created_at
                                    \/ (rows[j].created_at = rows[i].created_at /\ i <= j)
    IN  rows[best]

\* Section 6: the row kept for session sid: the first one, in row order, whose
\* created_at is not exceeded by a later row.
LatestAttempt(rows, sid) ==
    LET mine == {i \in 1..Len(rows) : rows[i].session_id = sid}
        best == CHOOSE i \in mine :
                    \A j \in mine : \/ rows[j].created_at < rows[i].created_at
                                    \/ (rows[j].created_at = rows[i].created_at /\ i <= j)
    IN  rows[best]

\* Section 6: one point per session with an attempt, sorted by date.
Trend(rows) ==
    LET sids == FirstSeen([i \in 1..Len(rows) |-> rows[i].session_id])
        points == [k \in 1..Len(sids) |->
                     LET a == LatestAttempt(rows, sids[k])
                     IN  [session_id |-> sids[k],
                          title |-> SessionTitle(sids[k]),
                          score |-> RoundMean2(a.score_total, a.score_count),
                          date |-> DateOf(a.created_at)]]
    IN  StableSortDesc(points, [k \in 1..Len(points) |-> 0 - points[k].date])

NoAnalytics ==
    [status |-> "none", total_sessions |-> 0, completed_sessions |-> 0,
     total_questions_answered |-> 0, overall_avg_score |-> 0,
     topic_scores |-> <<>>, blind_spots |-> <<>>, trend |-> <<>>]

\* ZeroedAnalytics reporting the default topic with no questions.
ZeroedAnalytics_DefaultTopic ==
    [NoAnalytics EXCEPT !.status = "ok", !.total_sessions = Len(SessionRows),
        !.topic_scores = <<[topic |-> DefaultLabel, avg_score |-> 0,
                            question_count |-> 0, sessions_appeared_in |-> 0,
                            is_blind_spot |-> FALSE]>>]

\* ZeroedAnalytics with total_sessions zeroed too.
ZeroedAnalytics_AllZero == [NoAnalytics EXCEPT !.status = "ok"]

\* The return value for an empty attempts table.
ZeroedAnalytics ==
    [NoAnalytics EXCEPT !.status = "ok", !.total_sessions = Len(SessionRows)]

\* The return value of compute_analytics (sections 5 to 7).
AnalyticsOut(rows, evals, texts, labels) ==
    LET topic_scores == TopicScores(evals, texts, labels)
        all_scores == [i \in 1..Len(evals) |-> evals[i].score]
    IN  [status |-> "ok",
         total_sessions |-> Len(SessionRows),
         completed_sessions |-> Cardinality({rows[i].session_id : i \in 1..Len(rows)}),
         total_questions_answered |-> Len(evals),
         overall_avg_score |-> IF evals = <<>> THEN 0
                               ELSE RoundMean2(SumSeq(all_scores), Len(evals)),
         topic_scores |-> topic_scores,
         blind_spots |-> BlindSpots(topic_scores),
         trend |-> Trend(rows)]

ScanIdle ==
    /\ pc = "off"
    /\ directory = <<>>
    /\ max_files = 0
    /\ discovered = <<>>
    /\ file_data = <<>>
    /\ batch_start = 0
    /\ ai_results = [x \in {} |-> BareItem(0)]
    /\ gateway_calls = <<>>
    /\ warned = {}
    /\ scan_result = NoResult

AnalyticsInit ==
    /\ apc = "idle"
    /\ attempts = <<>>
    /\ attempt_rows = <<>>
    /\ flat_evals = <<>>
    /\ unique_texts = <<>>
    /\ classify_resp = NoResponse
    /\ topic_labels = <<>>
    /\ analytics = NoAnalytics
    /\ ScanIdle
    /\ CatchupIdle
    /\ ReqIdle

\* submit_attempt: one row is added to the attempts table; created_at is the
\* clock of the store, which never runs backwards.
RecordAttempt ==
    /\ apc \in {"idle", "off"}
    /\ cpc \in {"idle", "off"}
    /\ Len(attempts) < MaxAttempts
    /\ \E sub \in Submissions, tick \in {0, 1} :
          LET now == (IF attempts = <<>> THEN 0
                      ELSE attempts[Len(attempts)].created_at) + tick
              scores == [i \in 1..Len(sub.evaluations) |-> sub.evaluations[i].score]
          IN  attempts' = Append(attempts,
                [id |-> Len(attempts) + 1,
                 session_id |-> sub.session_id,
                 quiz_id |-> sub.quiz_id,
                 answers |-> sub.answers,
                 evaluations |-> sub.evaluations,
                 score_total |-> SumSeq(scores),
                 score_count |-> Len(scores),
                 created_at |-> now])
    /\ UNCHANGED <<apc, attempt_rows, flat_evals, unique_texts, classify_resp,
                   topic_labels, analytics, scanVars, reqVars, cuVars>>

\* StoreAfterRequest for a request that deletes what it read.
StoreAfterRequest_Purging(rows) == <<>>

\* The attempts table once a compute_analytics or generate_catchup_brief
\* request is over: both only select, they add, change and delete no row,
\* and the request's database session is closed without a commit.
StoreAfterRequest(rows) == rows

\* select(Attempt) has no ORDER BY: the rows come back in an order of the
\* store's choosing.
RowOrders(rows) ==
    { [i \in 1..Len(rows) |-> rows[p[i]]] : p \in Permutations(1..Len(rows)) }

\* compute_analytics, sections 1 to 4 up to the classifier call: load the
\* tables, return the zeroed result when there is no attempt, flatten the
\* evaluations and deduplicate the texts.
LoadEvaluations ==
    /\ apc = "idle"
    /\ cpc \in {"idle", "off"}
    /\ IF attempts = <<>>
       THEN /\ apc' = "done"
            /\ analytics' = ZeroedAnalytics
            /\ attempt_rows' = <<>>
            /\ flat_evals' = <<>>
            /\ unique_texts' = <<>>
       ELSE /\ apc' = "classify"
            /\ analytics' = NoAnalytics
            /\ attempt_rows' \in RowOrders(attempts)
            /\ flat_evals' = FlattenEvals(attempt_rows')
            /\ unique_texts' = UniqueTexts(flat_evals')
    /\ UNCHANGED <<attempts, classify_resp, topic_labels, scanVars, reqVars, cuVars>>

\* _classify_questions: no gateway call for an empty list; a call that raises
\* propagates out of compute_analytics (the route answers 502).
Classify ==
    /\ apc = "classify"
    /\ IF unique_texts = <<>>
       THEN /\ topic_labels' = <<>>
            /\ apc' = "aggregate"
            /\ UNCHANGED <<classify_resp, analytics>>
       ELSE \E resp \in ClassifyResponses :
              /\ classify_resp' = resp
              /\ IF resp.kind = "exception"
                 THEN /\ apc' = "raised"
                      /\ analytics' = [NoAnalytics EXCEPT !.status = "error"]
                      /\ UNCHANGED topic_labels
                 ELSE /\ apc' = "aggregate"
                      /\ topic_labels' = _classify_questions(unique_texts, resp)
                      /\ UNCHANGED analytics
    /\ UNCHANGED <<attempts, attempt_rows, flat_evals, unique_texts, scanVars, reqVars,
                   cuVars>>

\* compute_analytics, sections 4 (text_to_topic) to 7; topic_labels[i] raises
\* IndexError when the label list is shorter than the text list.
Aggregate ==
    /\ apc = "aggregate"
    /\ IF Len(topic_labels) < Len(unique_texts)
       THEN /\ apc' = "raised"
            /\ analytics' = [NoAnalytics EXCEPT !.status = "error"]
            /\ UNCHANGED flat_evals
       ELSE /\ apc' = "done"
            /\ analytics' = AnalyticsOut(attempt_rows, flat_evals, unique_texts, topic_labels)
            /\ flat_evals' = WithTopics(flat_evals, unique_texts, topic_labels)
    /\ UNCHANGED <<attempts, attempt_rows, unique_texts, classify_resp,
                   topic_labels, scanVars, reqVars, cuVars>>

\* The response is sent and the locals of the request are gone; the next
\* request starts from the store as it is.
Respond ==
    /\ apc \in {"done", "raised"}
    /\ apc' = "idle"
    /\ attempt_rows' = <<>>
    /\ flat_evals' = <<>>
    /\ unique_texts' = <<>>
    /\ classify_resp' = NoResponse
    /\ topic_labels' = <<>>
    /\ analytics' = NoAnalytics
    /\ attempts' = StoreAfterRequest(attempts)
    /\ UNCHANGED <<scanVars, reqVars, cuVars>>

AnalyticsNext == RecordAttempt \/ LoadEvaluations \/ Classify \/ Aggregate \/ Respond

SpecAnalytics == AnalyticsInit /\ [][AnalyticsNext]_vars

(***************************************************************************)
(* generate_catchup_brief                                                  *)
(***************************************************************************)

\* str.lower() on the labels and topics that occur.
Lower(str) ==
    CASE str = "Security" -> "security"
      [] str = "SECURITY" -> "security"
      [] str = DefaultLabel -> "general concepts"
      [] OTHER -> str

\* Topics a catch-up is requested for.
TopicChoices == {"SECURITY", DefaultLabel}

NoAttemptsBrief == "No quiz attempts found yet. Complete some quizzes first, then come back for a {topic} catch-up."
GreatNewsBrief == "Great news - no wrong or partial answers found for the topic '{topic}'. Either you aced it or haven't been quizzed on it yet."

\* message.content of the explanation call: None, or text with blanks around.
ExplainContents == {"None", "  Tokens are verified by ...  "}
\* (content or "").strip()
Strip(content) == IF content = "None" THEN "" ELSE "Tokens are verified by ..."

\* answer_lookup[(quiz_id, qid)]: every attempt row writes its answers under
\* the same key, so the last row read that answers the question is the one
\* that stays; "" when nobody answered it.
AnswerLookup(rows, quiz_id, qid) ==
    LET hits == {<<i, j>> \in (1..Len(rows)) \X (1..2) :
                    /\ rows[i].quiz_id = quiz_id
                    /\ j <= Len(rows[i].answers)
                    /\ rows[i].answers[j].question_id = qid}
    IN  IF hits = {} THEN ""
        ELSE LET last == CHOOSE h \in hits :
                            \A g \in hits : g[1] < h[1] \/ (g[1] = h[1] /\ g[2] <= h[2])
             IN  rows[last[1]].answers[last[2]].answer_text

RECURSIVE CatchupEvalsFrom(_, _)
\* The flattened evaluations of generate_catchup_brief, in row order; all is
\* the whole row list, from which the answers are looked up.
CatchupEvalsFrom(rows, all) ==
    IF rows = <<>> THEN <<>>
    ELSE LET a == Head(rows)
         IN  [i \in 1..Len(a.evaluations) |->
                [question_id |-> a.evaluations[i].question_id,
                 quiz_id |-> a.quiz_id,
                 question_text |-> QuestionText(a.quiz_id, a.evaluations[i].question_id),
                 answer_text |-> AnswerLookup(all, a.quiz_id, a.evaluations[i].question_id),
                 session_id |-> a.session_id,
                 score |-> a.evaluations[i].score,
                 verdict |-> a.evaluations[i].verdict]]
             \o CatchupEvalsFrom(Tail(rows), all)

CatchupEvals(rows) == CatchupEvalsFrom(rows, rows)

\* WrongEvals without the verdict test.
WrongEvals_AnyVerdict(evals, texts, labels, requested) ==
    LET Wrong(ev) == Lower(TopicOf(ev, texts, labels)) = Lower(requested)
    IN  SelectSeq(evals, Wrong)

\* The filter: topic equal to the requested one ignoring case, verdict
\* partial or incorrect.
WrongEvals(evals, texts, labels, requested) ==
    LET Wrong(ev) == /\ Lower(TopicOf(ev, texts, labels)) = Lower(requested)
                     /\ ev.verdict \in {"partial", "incorrect"}
    IN  SelectSeq(evals, Wrong)

RECURSIVE AscendingSeq(_)
\* list(set_of_small_ints): CPython iterates them in ascending order.
AscendingSeq(S) ==
    IF S = {} THEN <<>>
    ELSE LET m == CHOOSE x \in S : \A y \in S : x <= y
         IN  <<m>> \o AscendingSeq(S \ {m})

\* list({ev["session_id"] for ev in wrong_evals})
SourceSessionIds(evals) == AscendingSeq({evals[i].session_id : i \in 1..Len(evals)})

CatchupCall(call, raised) == [call |-> call, raised |-> raised]

CatchupInit ==
    /\ cpc = "idle"
    /\ catchup_topic = ""
    /\ wrong_evals = <<>>
    /\ catchup_calls = <<>>
    /\ catchup = NoCatchup
    /\ apc = "off"
    /\ attempts = <<>>
    /\ attempt_rows = <<>>
    /\ flat_evals = <<>>
    /\ unique_texts = <<>>
    /\ classify_resp = NoResponse
    /\ topic_labels = <<>>
    /\ analytics = NoAnalytics
    /\ ScanIdle
    /\ ReqIdle

\* generate_catchup_brief up to the classification call: load the tables,
\* return the "no attempts" message for an empty table, build the answer
\* lookup, flatten the evaluations and deduplicate the texts.
CatchupLoad ==
    /\ cpc = "idle"
    /\ apc \in {"idle", "off"}
    /\ \E requested \in TopicChoices :
          /\ catchup_topic' = requested
          /\ IF attempts = <<>>
             THEN /\ cpc' = "done"
                  /\ catchup' = [status |-> "ok", brief |-> NoAttemptsBrief,
                                 source_session_ids |-> <<>>]
                  /\ attempt_rows' = <<>>
                  /\ flat_evals' = <<>>
                  /\ unique_texts' = <<>>
             ELSE /\ cpc' = "classify"
                  /\ catchup' = NoCatchup
                  /\ attempt_rows' \in RowOrders(attempts)
                  /\ flat_evals' = CatchupEvals(attempt_rows')
                  /\ unique_texts' = UniqueTexts(flat_evals')
    /\ UNCHANGED <<apc, attempts, classify_resp, topic_labels, analytics,
                   wrong_evals, catchup_calls, scanVars, reqVars>>

\* From the classification call to the explanation call: a classification
\* call that raises propagates (the route answers 502); otherwise the
\* entries are filtered, and without a match the "great news" message is
\* returned.
CatchupClassify ==
    /\ cpc = "classify"
    /\ \E resp \in ClassifyResponses :
          IF unique_texts # <<>> /\ resp.kind = "exception"
          THEN /\ cpc' = "raised"
               /\ catchup_calls' = Append(catchup_calls, CatchupCall("classify", TRUE))
               /\ catchup' = [NoCatchup EXCEPT !.status = "error"]
               /\ UNCHANGED <<topic_labels, wrong_evals>>
          ELSE LET labels == IF unique_texts = <<>> THEN <<>>
                             ELSE _classify_questions(unique_texts, resp)
                   wrong == WrongEvals(flat_evals, unique_texts, labels, catchup_topic)
               IN  /\ catchup_calls' =
                         IF unique_texts = <<>> THEN catchup_calls
                         ELSE Append(catchup_calls, CatchupCall("classify", FALSE))
                   /\ topic_labels' = labels
                   /\ IF Len(labels) < Len(unique_texts)
                      THEN /\ cpc' = "raised"
                           /\ catchup' = [NoCatchup EXCEPT !.status = "error"]
                           /\ wrong_evals' = <<>>
                      ELSE IF wrong = <<>>
                      THEN /\ cpc' = "done"
                           /\ catchup' = [status |-> "ok", brief |-> GreatNewsBrief,
                                          source_session_ids |-> <<>>]
                           /\ wrong_evals' = <<>>
                      ELSE /\ cpc' = "explain"
                           /\ wrong_evals' = wrong
                           /\ UNCHANGED catchup
    /\ UNCHANGED <<apc, attempts, attempt_rows, flat_evals, unique_texts,
                   classify_resp, analytics, catchup_topic, scanVars, reqVars>>

\* The explanation call: it is not guarded, so a call that raises propagates;
\* otherwise the stripped text and the session ids are returned.
CatchupExplain ==
    /\ cpc = "explain"
    /\ \/ /\ cpc' = "raised"
          /\ catchup_calls' = Append(catchup_calls, CatchupCall("explain", TRUE))
          /\ catchup' = [NoCatchup EXCEPT !.status = "error"]
       \/ \E content \in ExplainContents :
            /\ cpc' = "done"
            /\ catchup_calls' = Append(catchup_calls, CatchupCall("explain", FALSE))
            /\ catchup' = [status |-> "ok", brief |-> Strip(content),
                           source_session_ids |-> SourceSessionIds(wrong_evals)]
    /\ UNCHANGED <<apc, attempts, attempt_rows, flat_evals, unique_texts,
                   classify_resp, topic_labels, analytics, catchup_topic,
                   wrong_evals, scanVars, reqVars>>

\* The response is sent and the locals of the request are gone.
CatchupRespond ==
    /\ cpc \in {"done", "raised"}
    /\ cpc' = "idle"
    /\ catchup_topic' = ""
    /\ wrong_evals' = <<>>
    /\ catchup_calls' = <<>>
    /\ catchup' = NoCatchup
    /\ attempt_rows' = <<>>
    /\ flat_evals' = <<>>
    /\ unique_texts' = <<>>
    /\ topic_labels' = <<>>
    /\ attempts' = StoreAfterRequest(attempts)
    /\ UNCHANGED <<apc, classify_resp, analytics, scanVars, reqVars>>

CatchupNext ==
    RecordAttempt \/ CatchupLoad \/ CatchupClassify \/ CatchupExplain \/ CatchupRespond

SpecCatchup == CatchupInit /\ [][CatchupNext]_vars

(***************************************************************************)
(* The store under analytics and catch-up requests                         *)
(***************************************************************************)

\* Both routes are served; a request runs to its response before the next
\* one is looked at (each request works on its own locals).
StoreInit ==
    /\ apc = "idle"
    /\ cpc = "idle"
    /\ catchup_topic = ""
    /\ wrong_evals = <<>>
    /\ catchup_calls = <<>>
    /\ catchup = NoCatchup
    /\ attempts = <<>>
    /\ attempt_rows = <<>>
    /\ flat_evals = <<>>
    /\ unique_texts = <<>>
    /\ classify_resp = NoResponse
    /\ topic_labels = <<>>
    /\ analytics = NoAnalytics
    /\ ScanIdle
    /\ ReqIdle

StoreNext == AnalyticsNext \/ CatchupNext

SpecStore == StoreInit /\ [][StoreNext]_vars

(***************************************************************************)
(* Properties of scan_directory                                            *)
(***************************************************************************)

NoAi == [x \in {} |-> BareItem(0)]

FileIndices == 0 .. (Len(file_data) - 1)
BatchOf(start) == {idx \in FileIndices : start <= idx /\ idx < start + batch_size}

\* The entry of file idx (0-based position in file_data) in the returned list.
ResultOf(idx) ==
    LET files == scan_result.files
    IN  files[CHOOSE i \in 1..Len(files) : files[i].path = file_data[idx + 1].path]

ResultPaths == {scan_result.files[i].path : i \in 1..Len(scan_result.files)}

\* C1: every file of every returned scan has 0 <= risk_score <= 100, whether
\* the score came from a gateway item or from the metric formula.
C1_RiskScoreInRange ==
    pc = "done" =>
        \A i \in 1..Len(scan_result.files) :
            /\ 0 <= scan_result.files[i].risk_score
            /\ scan_result.files[i].risk_score <= Pts(100)

\* C3: in a two-batch scan whose first call raised and whose second call
\* was handled without error, every file of the first batch has no risk
\* factors and the weight-derived blast radius, and every file of the second
\* batch the gateway answered for keeps the gateway's risk factors.
C3_MixedBatch ==
    ( /\ pc = "done"
      /\ Len(gateway_calls) = 2
      /\ gateway_calls[1].kind = "exception"
      /\ gateway_calls[2].kind = "list"
      /\ ~gateway_calls[2].raised )
    =>
    /\ \A idx \in BatchOf(0) :
          /\ ResultOf(idx).risk_factors = NoFactors
          /\ ResultOf(idx).blast_radius = MetricBlast(file_data[idx + 1].import_weight)
    /\ \A idx \in BatchOf(batch_size) :
          (idx \in DOMAIN ai_results /\ ai_results[idx].has_factors)
              => ResultOf(idx).risk_factors = ai_results[idx].risk_factors

\* C4: when the handling of a batch's response raised, every file of that
\* batch is scored by the metric formula, with no risk factors: none of them
\* carries anything the gateway returned.
C4_FallbackAllOrNothing ==
    pc = "done" =>
        \A start \in warned : \A idx \in BatchOf(start) :
            ResultOf(idx) = ResultFile(NoAi, file_data, idx)

Entry(res, idx) == IF idx \in DOMAIN res THEN <<res[idx]>> ELSE <<>>

\* C5: the call for the batch [batch_start, batch_start + batch_size) leaves
\* the gateway item of every file outside that batch as it was, whatever the
\* response holds.
C5_ResponseStaysInBatch ==
    [][ (pc = "assess" /\ batch_start < Len(file_data)) =>
            \A idx \in FileIndices \ BatchOf(batch_start) :
                Entry(ai_results', idx) = Entry(ai_results, idx) ]_vars

\* C6: whatever the gateway answers, scan_directory raises nothing and
\* returns a result that holds every scanned file.
C6_ScanNeverAborts ==
    /\ pc # "raised"
    /\ pc = "done" => ResultPaths = {file_data[i].path : i \in 1..Len(file_data)}

\* C10 as stated: the result holds min(discovered_count, max_files) files.
C10_CountIsMinOfCap ==
    pc = "done" =>
        /\ Len(scan_result.files) = Min(Len(directory), max_files)
        /\ scan_result.file_count = Min(Len(directory), max_files)
        /\ \A i, j \in 1..Len(scan_result.files) :
              scan_result.files[i].path = scan_result.files[j].path => i = j
        /\ Len(directory) <= max_files =>
              ResultPaths = {directory[i].path : i \in 1..Len(directory)}

\* C10, amended: for max_files >= 0 the result holds min(discovered_count,
\* max_files) files, for max_files < 0 it holds max(0, discovered_count +
\* max_files); file_count is that number, every kept file appears once, and
\* nothing is dropped when discovered_count <= max_files.
C10_FileCount ==
    pc = "done" =>
        LET files == scan_result.files
            d == Len(directory)
            kept == IF max_files >= 0 THEN Min(d, max_files)
                    ELSE Max(0, d + max_files)
        IN  /\ Len(files) = kept
            /\ scan_result.file_count = kept
            /\ \A i, j \in 1..Len(files) : files[i].path = files[j].path => i = j
            /\ ResultPaths \subseteq {directory[i].path : i \in 1..d}
            /\ d <= max_files => ResultPaths = {directory[i].path : i \in 1..d}

\* C10 witness: a scan that dropped files by the cap and was scored and returned.
C10_Witness ==
    /\ pc = "done"
    /\ max_files > 0
    /\ Len(directory) > max_files
    /\ Len(scan_result.files) = max_files
    /\ Len(gateway_calls) = 1

(***************************************************************************)
(* Properties of _classify_questions and compute_analytics                 *)
(***************************************************************************)

\* C2: for every returned TopicStat, is_blind_spot is true exactly when the
\* returned (rounded) avg_score is below 60 and question_count is at least 2.
C2_BlindSpotMatchesReturnedAvg ==
    (apc = "done" /\ analytics.status = "ok") =>
        \A k \in 1..Len(analytics.topic_scores) :
            LET t == analytics.topic_scores[k]
            IN  t.is_blind_spot <=> (t.avg_score < Pts(60) /\ t.question_count >= 2)

\* C7: when the classification call raises, the request does not fail: every
\* unique text gets the default label and the aggregation goes on with them.
C7_ClassifyOutageRecovered ==
    classify_resp.kind = "exception" =>
        /\ apc # "raised"
        /\ topic_labels = Repeat(DefaultLabel, Len(unique_texts))

Classified == apc \in {"aggregate", "done"} /\ unique_texts # <<>>

\* C8: a classification response that does not parse, or parses to something
\* that is no list, gives exactly one default label per unique text.
C8_MalformedGivesDefaults ==
    (Classified /\ classify_resp.kind \in {"unparsable", "nonlist"}) =>
        /\ Len(topic_labels) = Len(unique_texts)
        /\ \A i \in 1..Len(topic_labels) : topic_labels[i] = DefaultLabel

\* C8 witness: three unique texts classified from an unparsable response.
C8_Witness ==
    /\ apc = "aggregate"
    /\ classify_resp.kind = "unparsable"
    /\ Len(unique_texts) = 3

\* C9: for n texts and a returned list of k labels the result has n labels,
\* the first min(k, n) are the returned ones in order, the rest the default.
C9_PadOrTruncate ==
    (Classified /\ classify_resp.kind = "list") =>
        LET n == Len(unique_texts)
            k == Len(classify_resp.labels)
        IN  /\ Len(topic_labels) = n
            /\ \A i \in 1..Min(k, n) : topic_labels[i] = classify_resp.labels[i]
            /\ \A i \in (k + 1)..n : topic_labels[i] = DefaultLabel

\* C9 witness: a returned list shorter than the input was padded.
C9_Witness ==
    /\ apc = "aggregate"
    /\ classify_resp.kind = "list"
    /\ Len(classify_resp.labels) >= 1
    /\ Len(classify_resp.labels) < Len(unique_texts)
    /\ \E i \in 1..Len(classify_resp.labels) : classify_resp.labels[i] # DefaultLabel

\* A returned list longer than the input was truncated.
C9_TruncationReached ==
    /\ apc = "aggregate"
    /\ classify_resp.kind = "list"
    /\ Len(classify_resp.labels) > Len(unique_texts)

(***************************************************************************)
(* Properties of the metric fallback, the ranking, the cap and the weights *)
(***************************************************************************)

\* C11: a file scored by the fallback path (no gateway item stored for it)
\* has risk_score = min(100, weight * 10 + min(line_count / 5, 50)); in a scan
\* of auth (50 lines), db and views with the gateway unreachable, auth has
\* weight 2 and score 30.
C11_FallbackFormula ==
    pc = "done" =>
        /\ \A idx \in FileIndices :
              idx \notin DOMAIN ai_results =>
                 LET fd == file_data[idx + 1]
                     line_part == IF fd.line_count >= 250 THEN 50000
                                  ELSE fd.line_count * 200
                     raw == fd.import_weight * 10000 + line_part
                 IN  ResultOf(idx).risk_score = IF raw > 100000 THEN 100000 ELSE raw
        /\ ( /\ directory = Directory(3, 0)
             /\ Len(file_data) = 3
             /\ \A c \in 1..Len(gateway_calls) : gateway_calls[c].kind = "exception" )
           => /\ file_data[1].stem = "auth"
              /\ file_data[1].line_count = 50
              /\ file_data[1].import_weight = 2
              /\ ResultOf(0).risk_score = 30000

\* C11 witness: the three-file scan with the gateway unreachable, returned.
C11_Witness ==
    /\ pc = "done"
    /\ directory = Directory(3, 0)
    /\ Len(file_data) = 3
    /\ Len(gateway_calls) = 1
    /\ gateway_calls[1].kind = "exception"
    /\ ResultOf(0).risk_score = Pts(30)

\* Position of a path in the capped discovery list.
DiscoveredPos(path) == CHOOSE i \in 1..Len(discovered) : discovered[i].path = path

\* C12: the returned files are in descending order of risk_score, and files
\* with equal risk_score are in the order of the capped discovery list.
C12_SortedDescendingStable ==
    pc = "done" =>
        LET files == scan_result.files
        IN  /\ \A i \in 1..(Len(files) - 1) :
                  Geq(files[i].risk_score, files[i + 1].risk_score)
            /\ \A i, j \in 1..Len(files) :
                  (i < j /\ FloatEq(files[i].risk_score, files[j].risk_score))
                      => DiscoveredPos(files[i].path) < DiscoveredPos(files[j].path)

\* When no returned score is NaN, the order is the one C12 describes.
C12_SortedWithoutNaN ==
    (pc = "done" /\ \A i \in 1..Len(scan_result.files) :
                        scan_result.files[i].risk_score # NaN)
        => C12_SortedDescendingStable

\* C13: when more files are discovered than max_files, every kept file is at
\* least as large as every dropped file, and of two files of equal size the
\* one discovered earlier is the one kept.
C13_CapKeepsLargest ==
    (pc \in {"metrics", "assess", "done", "raised"} /\ Len(directory) > max_files) =>
        LET kept == {i \in 1..Len(directory) :
                        \E k \in 1..Len(discovered) : discovered[k].path = directory[i].path}
            dropped == (1..Len(directory)) \ kept
        IN  \A k \in kept, d \in dropped :
                /\ directory[k].size >= directory[d].size
                /\ directory[k].size = directory[d].size => k < d

\* C13 witness: a cap that dropped a file as large as a kept one and a
\* smaller one.
C13_Witness ==
    /\ pc = "metrics"
    /\ max_files > 0
    /\ Len(discovered) = max_files
    /\ \E d \in 1..Len(directory) :
          /\ \A k \in 1..Len(discovered) : discovered[k].path # directory[d].path
          /\ directory[d].size = discovered[Len(discovered)].size
    /\ \E d \in 1..Len(directory) : directory[d].size < discovered[Len(discovered)].size

\* C14: the weight of file A is the number of files at another position of
\* the list whose content contains A's stem; A itself is never counted, and
\* B counts for A without A counting for B.
C14_ReferenceWeight ==
    pc \in {"assess", "done", "raised"} =>
        \A i \in 1..Len(file_data) :
            file_data[i].import_weight =
                Cardinality({j \in 1..Len(discovered) :
                    /\ j # i
                    /\ discovered[j].readable
                    /\ discovered[i].stem \in discovered[j].mentions})

\* C14 witness: A's stem occurs in A and in B, B's stem does not occur in A;
\* B is counted for A, and A is not counted for B.
C14_Witness ==
    /\ pc = "assess"
    /\ \E a, b \in 1..Len(file_data) :
          /\ a # b
          /\ file_data[a].stem \in file_data[a].content
          /\ file_data[a].stem \in file_data[b].content
          /\ file_data[b].stem \notin file_data[a].content
          /\ file_data[a].import_weight >= 1
          /\ file_data[b].import_weight = 0

(***************************************************************************)
(* Properties of compute_analytics: the empty store, the trend, the topics *)
(***************************************************************************)

\* C15: with no evaluation record in the store (no attempt: submit_attempt
\* never stores an attempt without evaluations), compute_analytics returns
\* overall_avg_score 0.0, topic_scores [] and blind_spots [], raises nothing
\* and never reaches the classification call.
C15_EmptyStore ==
    attempts = <<>> =>
        /\ apc \in {"idle", "done"}
        /\ classify_resp = NoResponse
        /\ apc = "done" =>
              /\ analytics.status = "ok"
              /\ analytics.overall_avg_score = 0
              /\ analytics.topic_scores = <<>>
              /\ analytics.blind_spots = <<>>

\* C15 witness: a request answered from the empty store.
C15_Witness ==
    /\ apc = "done"
    /\ attempts = <<>>
    /\ analytics.status = "ok"
    /\ classify_resp = NoResponse

SessionIds(rows) == {rows[i].session_id : i \in 1..Len(rows)}

\* C17: the trend has exactly one point per session with an attempt; the
\* point carries the score and date of an attempt of that session whose
\* created_at is maximal; the points are in ascending order of date.
C17_TrendLatestPerSession ==
    (apc = "done" /\ attempts # <<>>) =>
        LET trend == analytics.trend
        IN  /\ Len(trend) = Cardinality(SessionIds(attempts))
            /\ {trend[k].session_id : k \in 1..Len(trend)} = SessionIds(attempts)
            /\ \A k \in 1..Len(trend) :
                  \E i \in 1..Len(attempts) :
                      /\ attempts[i].session_id = trend[k].session_id
                      /\ \A j \in 1..Len(attempts) :
                            attempts[j].session_id = trend[k].session_id
                                => attempts[j].created_at <= attempts[i].created_at
                      /\ trend[k].score =
                            RoundMean2(attempts[i].score_total, attempts[i].score_count)
                      /\ trend[k].date = DateOf(attempts[i].created_at)
            /\ \A k \in 1..(Len(trend) - 1) : trend[k].date <= trend[k + 1].date

\* C17 witness: a session with an older and a newer attempt of different
\* score, read older first, so that the newer one replaced it.
C17_Witness ==
    /\ apc = "done"
    /\ Len(attempt_rows) = 2
    /\ attempt_rows[1].session_id = attempt_rows[2].session_id
    /\ attempt_rows[1].created_at < attempt_rows[2].created_at
    /\ attempt_rows[1].score_total # attempt_rows[2].score_total
    /\ Len(analytics.trend) = 1
    /\ analytics.trend[1].score =
          RoundMean2(attempt_rows[2].score_total, attempt_rows[2].score_count)

\* Two sessions read newest first: the sort by date reordered the points.
C17_SortReached ==
    /\ apc = "done"
    /\ Len(attempt_rows) = 2
    /\ attempt_rows[1].session_id # attempt_rows[2].session_id
    /\ DateOf(attempt_rows[1].created_at) > DateOf(attempt_rows[2].created_at)
    /\ Len(analytics.trend) = 2
    /\ analytics.trend[1].session_id = attempt_rows[2].session_id

\* The trend point of session sid.
PointOf(trend, sid) ==
    trend[CHOOSE k \in 1..Len(trend) : trend[k].session_id = sid]

\* C18: the trend point of every session is the same for every order in
\* which the store returns the attempts.
C18_TrendOrderIndependent ==
    (apc = "done" /\ attempts # <<>>) =>
        \A rows \in RowOrders(attempts) :
            \A sid \in SessionIds(attempts) :
                PointOf(Trend(rows), sid) = PointOf(analytics.trend, sid)

\* When no two attempts of a session share created_at, the order of the rows
\* does not matter.
C18_OrderIndependentWithoutTies ==
    (\A i, j \in 1..Len(attempts) :
        (i # j /\ attempts[i].session_id = attempts[j].session_id)
            => attempts[i].created_at # attempts[j].created_at)
    => C18_TrendOrderIndependent

\* The (attempt, evaluation) pairs of the store that the running request
\* resolved to topic.
RecordsOf(topic) ==
    {p \in (1..Len(attempts)) \X (1..2) :
        /\ p[2] <= Len(attempts[p[1]].evaluations)
        /\ topic_labels[IndexOf(unique_texts,
              QuestionText(attempts[p[1]].quiz_id,
                           attempts[p[1]].evaluations[p[2]].question_id))] = topic}

RECURSIVE SumOfScores(_)
SumOfScores(pairs) ==
    IF pairs = {} THEN 0
    ELSE LET p == CHOOSE q \in pairs : TRUE
         IN  attempts[p[1]].evaluations[p[2]].score + SumOfScores(pairs \ {p})

\* C19: for every topic of topic_scores, question_count is the number of
\* evaluation records resolved to it (every repeated answer counted),
\* avg_score is their mean rounded to 2 decimals, and sessions_appeared_in is
\* the number of distinct sessions among them; every resolved topic has
\* exactly one entry.
C19_TopicStats ==
    (apc = "done" /\ attempts # <<>>) =>
        LET ts == analytics.topic_scores
        IN  /\ \A k \in 1..Len(ts) :
                  LET recs == RecordsOf(ts[k].topic)
                      n == Cardinality(recs)
                      total == SumOfScores(recs)
                  IN  /\ n > 0
                      /\ ts[k].question_count = n
                      /\ ts[k].avg_score % 10 = 0
                      /\ ts[k].avg_score * n - total <= 5 * n
                      /\ total - ts[k].avg_score * n <= 5 * n
                      /\ ts[k].sessions_appeared_in =
                            Cardinality({attempts[p[1]].session_id : p \in recs})
            /\ \A k, l \in 1..Len(ts) : ts[k].topic = ts[l].topic => k = l
            /\ \A i \in 1..Len(topic_labels) :
                  \E k \in 1..Len(ts) : ts[k].topic = topic_labels[i]

\* C19 witness: a topic whose records include the same question text answered
\* in two attempts of one session.
C19_Witness ==
    /\ apc = "done"
    /\ \E k \in 1..Len(analytics.topic_scores) :
          LET t == analytics.topic_scores[k]
          IN  /\ t.question_count = 4
              /\ t.sessions_appeared_in = 1
              /\ Cardinality({flat_evals[i].question_text : i \in 1..Len(flat_evals)}) = 2

(***************************************************************************)
(* Properties of generate_catchup_brief                                    *)
(***************************************************************************)

ClassifyRaised ==
    \E c \in 1..Len(catchup_calls) :
        catchup_calls[c].call = "classify" /\ catchup_calls[c].raised
ExplainCalled ==
    \E c \in 1..Len(catchup_calls) : catchup_calls[c].call = "explain"

\* The labels the evaluations resolve to: those of the classifier, and the
\* default label for every text when the classifier is unavailable.
ResolvedLabels ==
    IF ClassifyRaised THEN Repeat(DefaultLabel, Len(unique_texts)) ELSE topic_labels

\* No evaluation both resolves to the requested topic and is partial or
\* incorrect.
NoMatch ==
    \/ attempts = <<>>
    \/ /\ Len(ResolvedLabels) = Len(unique_texts)
       /\ WrongEvals(flat_evals, unique_texts, ResolvedLabels, catchup_topic) = <<>>

\* C20: a finished catch-up request without a matching wrong or partial
\* evaluation returned a fixed message and an empty session-id list, raised
\* nothing and made no explanation call.
C20_NoMatchGivesMessage ==
    (cpc \in {"done", "raised"} /\ NoMatch) =>
        /\ cpc = "done"
        /\ catchup.status = "ok"
        /\ catchup.brief \in {NoAttemptsBrief, GreatNewsBrief}
        /\ catchup.source_session_ids = <<>>
        /\ ~ExplainCalled

\* When the classification call does not raise, C20 holds.
C20_NoMatchWithoutOutage ==
    ~ClassifyRaised => C20_NoMatchGivesMessage

\* The canned message was returned for a store that holds attempts.
C20_GreatNewsReached ==
    /\ cpc = "done"
    /\ attempts # <<>>
    /\ catchup.brief = GreatNewsBrief
    /\ catchup_topic = "SECURITY"

\* The (attempt, evaluation) pairs of the store whose resolved topic is the
\* requested one ignoring case and whose verdict is partial or incorrect.
MatchingRecords ==
    {p \in (1..Len(attempts)) \X (1..2) :
        /\ p[2] <= Len(attempts[p[1]].evaluations)
        /\ LET ev == attempts[p[1]].evaluations[p[2]]
               label == topic_labels[IndexOf(unique_texts,
                            QuestionText(attempts[p[1]].quiz_id, ev.question_id))]
           IN  /\ Lower(label) = Lower(catchup_topic)
               /\ ev.verdict \in {"partial", "incorrect"}}

\* C21: on a successful catch-up with a match, the session-id list holds,
\* each once, exactly the session ids of the evaluations that match the topic
\* (ignoring case) and are partial or incorrect; the context holds one entry
\* per such evaluation and none for a correct one or another topic.
C21_SessionIdsOfMatches ==
    (cpc = "done" /\ ExplainCalled) =>
        LET ids == catchup.source_session_ids
        IN  /\ MatchingRecords # {}
            /\ {ids[k] : k \in 1..Len(ids)}
                  = {attempts[p[1]].session_id : p \in MatchingRecords}
            /\ \A k, l \in 1..Len(ids) : ids[k] = ids[l] => k = l
            /\ Len(wrong_evals) = Cardinality(MatchingRecords)
            /\ \A k \in 1..Len(wrong_evals) :
                  /\ wrong_evals[k].verdict \in {"partial", "incorrect"}
                  /\ Lower(TopicOf(wrong_evals[k], unique_texts, topic_labels))
                        = Lower(catchup_topic)
                  /\ \E p \in MatchingRecords :
                        /\ attempts[p[1]].session_id = wrong_evals[k].session_id
                        /\ attempts[p[1]].quiz_id = wrong_evals[k].quiz_id
                        /\ attempts[p[1]].evaluations[p[2]].question_id
                              = wrong_evals[k].question_id

\* C21 witness: two sessions match "SECURITY" through the label "Security";
\* the store also holds a correct answer of that topic and a wrong answer of
\* another topic, and neither contributes.
C21_Witness ==
    /\ cpc = "done"
    /\ ExplainCalled
    /\ catchup_topic = "SECURITY"
    /\ catchup.source_session_ids = <<1, 2>>
    /\ \E i \in 1..Len(flat_evals) :
          /\ flat_evals[i].verdict = "correct"
          /\ TopicOf(flat_evals[i], unique_texts, topic_labels) = "Security"
    /\ \E i \in 1..Len(flat_evals) :
          /\ flat_evals[i].verdict = "incorrect"
          /\ TopicOf(flat_evals[i], unique_texts, topic_labels) = DefaultLabel
    /\ Len(wrong_evals) < Len(flat_evals)

ExplainRaised ==
    \E c \in 1..Len(catchup_calls) :
        catchup_calls[c].call = "explain" /\ catchup_calls[c].raised

\* C22: a failure of the explanation call is a hard failure: when the call
\* raises, generate_catchup_brief raises and returns nothing, and no
\* catch-up that made the call returns an empty explanation with a session
\* list.
C22_ExplainFailureIsHard ==
    (cpc \in {"done", "raised"} /\ ExplainCalled) =>
        /\ ExplainRaised =>
              /\ cpc = "raised"
              /\ catchup.status = "error"
              /\ catchup.source_session_ids = <<>>
        /\ cpc = "done" => catchup.brief # ""

\* An explanation call that raises always propagates.
C22_RaisedExplainPropagates ==
    ExplainRaised => (cpc = "raised" /\ catchup.status = "error"
                        /\ catchup.source_session_ids = <<>>)

\* An answer without text was returned as an empty brief with its sessions.
C22_EmptyBriefReturned ==
    /\ cpc = "done"
    /\ ExplainCalled
    /\ catchup.status = "ok"
    /\ catchup.brief = ""
    /\ catchup.source_session_ids # <<>>

(***************************************************************************)
(* The store is only read                                                  *)
(***************************************************************************)

C23_AnalyticsPathsReached ==
    /\ cpc = "idle"
    /\ apc \in {"done", "raised"}
    /\ attempts # <<>>

(***************************************************************************)
(* Unreadable files and the batch loop                                     *)
(***************************************************************************)

\* The file as it would be if it were readable and empty.
EmptyFile(f) == [f EXCEPT !.readable = TRUE, !.lines = 0, !.imports = 0, !.mentions = {}]

\* C24: a file that cannot be read has line_count 0, import_count 0 and empty
\* content, counts for no other file's weight, leaves every metric as it
\* would be were the file empty, stays in the result, and is never the
\* reason a scan raises.
C24_UnreadableFileAbsorbed ==
    /\ pc \in {"assess", "done", "raised"} =>
          LET asEmpty == [i \in 1..Len(discovered) |->
                            IF discovered[i].readable THEN discovered[i]
                            ELSE EmptyFile(discovered[i])]
          IN  /\ Len(file_data) = Len(discovered)
              /\ \A i \in 1..Len(discovered) :
                    /\ ~discovered[i].readable =>
                          /\ file_data[i].line_count = 0
                          /\ file_data[i].import_count = 0
                          /\ file_data[i].content = {}
                    /\ file_data[i].line_count = asEmpty[i].lines
                    /\ file_data[i].import_count = asEmpty[i].imports
                    /\ file_data[i].content = asEmpty[i].mentions
                    /\ file_data[i].import_weight =
                          Cardinality({j \in 1..Len(asEmpty) :
                              j # i /\ asEmpty[i].stem \in asEmpty[j].mentions})
    /\ pc = "done" =>
          \A i \in 1..Len(discovered) :
              ~discovered[i].readable =>
                  \E k \in 1..Len(scan_result.files) :
                      /\ scan_result.files[k].path = discovered[i].path
                      /\ scan_result.files[k].line_count = 0
                      /\ scan_result.files[k].import_count = 0
    /\ pc = "raised" =>
          \E idx \in 0..(Len(file_data) - 1) : ScoreRaises(ai_results, idx)

\* C24 witness: a returned scan with an unreadable file whose text on disk
\* names another scanned file, which it does not count for.
C24_Witness ==
    /\ pc = "done"
    /\ \E i, j \in 1..Len(discovered) :
          /\ ~discovered[i].readable
          /\ discovered[j].stem \in discovered[i].mentions
          /\ file_data[j].import_weight =
                Cardinality({k \in 1..Len(discovered) :
                    k # j /\ k # i /\ discovered[k].readable
                    /\ discovered[j].stem \in discovered[k].mentions})
          /\ \E k \in 1..Len(scan_result.files) :
                scan_result.files[k].path = discovered[i].path

(***************************************************************************)
(* Topic resolution                                                        *)
(***************************************************************************)

\* The place of a question text among the distinct texts of the flattened
\* evaluations, counted in order of first occurrence.
TextRank(text) ==
    LET first == CHOOSE i \in 1..Len(flat_evals) :
                    /\ flat_evals[i].question_text = text
                    /\ \A j \in 1..(i - 1) : flat_evals[j].question_text # text
    IN  Cardinality({flat_evals[j].question_text : j \in 1..first})

\* The label the classifier's answer gives to the text of rank r.
AnsweredLabel(r) ==
    IF classify_resp.kind = "list" /\ r <= Len(classify_resp.labels)
    THEN classify_resp.labels[r]
    ELSE DefaultLabel

\* C25: the list sent to the classifier holds each distinct question text
\* once, in order of first occurrence; the i-th label goes to the i-th text;
\* two evaluations with the same text have the same topic, whatever their
\* session or attempt.
C25_TopicByExactText ==
    /\ (apc \in {"classify", "aggregate", "done"} \/ cpc \in {"classify", "explain", "done"})
          /\ flat_evals # <<>>
       => /\ \A i, j \in 1..Len(unique_texts) : unique_texts[i] = unique_texts[j] => i = j
          /\ \A i \in 1..Len(flat_evals) :
                /\ TextRank(flat_evals[i].question_text) <= Len(unique_texts)
                /\ unique_texts[TextRank(flat_evals[i].question_text)]
                      = flat_evals[i].question_text
          /\ Len(unique_texts)
                = Cardinality({flat_evals[i].question_text : i \in 1..Len(flat_evals)})
    /\ (apc = "done" /\ flat_evals # <<>>)
       => /\ \A i \in 1..Len(flat_evals) :
                flat_evals[i].topic = AnsweredLabel(TextRank(flat_evals[i].question_text))
          /\ \A i, j \in 1..Len(flat_evals) :
                flat_evals[i].question_text = flat_evals[j].question_text
                    => flat_evals[i].topic = flat_evals[j].topic

\* C25 witness: the same question text answered in two sessions, classified
\* once, and a second text with another label.
C25_Witness ==
    /\ apc = "done"
    /\ \E i, j \in 1..Len(flat_evals) :
          /\ flat_evals[i].session_id # flat_evals[j].session_id
          /\ flat_evals[i].question_text = flat_evals[j].question_text
          /\ flat_evals[i].topic = "Security"
          /\ flat_evals[j].topic = "Security"
    /\ \E i \in 1..Len(flat_evals) : flat_evals[i].topic = "security"
    /\ Len(unique_texts) < Len(flat_evals)

\* The catch-up request deduplicated the texts of two sessions too.
C25_CatchupReached ==
    /\ cpc = "done"
    /\ ExplainCalled
    /\ Len(unique_texts) = 3
    /\ Len(flat_evals) = 4

\* C26: a scan of n >= 1 files makes ceil(n / 10) gateway calls, the k-th for
\* the files 10(k-1) .. min(10(k-1) + 9, n - 1), so that every file is in
\* exactly one batch; no batch is sent twice and a failed batch does not stop
\* the later ones.
C26_OneCallPerBatch ==
    LET n == Len(file_data)
        calls == gateway_calls
    IN  /\ \A k \in 1..Len(calls) :
              /\ calls[k].batch_start = 10 * (k - 1)
              /\ calls[k].batch_start < n
              /\ calls[k].count = (IF n - 10 * (k - 1) < 10 THEN n - 10 * (k - 1) ELSE 10)
        /\ pc = "assess" => batch_start = 10 * Len(calls)
        /\ (pc \in {"done", "raised"} /\ n >= 1) =>
              /\ 10 * Len(calls) >= n
              /\ 10 * (Len(calls) - 1) < n
              /\ \A idx \in 0..(n - 1) :
                    Cardinality({k \in 1..Len(calls) :
                        /\ calls[k].batch_start <= idx
                        /\ idx < calls[k].batch_start + calls[k].count}) = 1

\* C26 witness: twelve files, the call for the first ten failed, the call for
\* the last two was made and its item stored.
C26_Witness ==
    /\ pc = "done"
    /\ Len(file_data) = 12
    /\ Len(gateway_calls) = 2
    /\ gateway_calls[1].raised
    /\ ~gateway_calls[2].raised
    /\ gateway_calls[2].count = 2
    /\ 10 \in DOMAIN ai_results

(***************************************************************************)
(* The answers shown in the catch-up context                               *)
(***************************************************************************)

\* The answer the attempt row gave to question qid ("" when it gave none).
AnswerIn(row, qid) ==
    IF \E j \in 1..Len(row.answers) : row.answers[j].question_id = qid
    THEN row.answers[CHOOSE j \in 1..Len(row.answers) :
                        row.answers[j].question_id = qid].answer_text
    ELSE ""

\* The entry shows the answer of an attempt that holds its evaluation.
ShowsOwnAnswer(entry) ==
    \E a \in 1..Len(attempts) :
        /\ attempts[a].quiz_id = entry.quiz_id
        /\ attempts[a].session_id = entry.session_id
        /\ \E e \in 1..Len(attempts[a].evaluations) :
              /\ attempts[a].evaluations[e].question_id = entry.question_id
              /\ attempts[a].evaluations[e].score = entry.score
              /\ attempts[a].evaluations[e].verdict = entry.verdict
        /\ AnswerIn(attempts[a], entry.question_id) = entry.answer_text

\* C27: every entry of the catch-up context shows the answer that was
\* submitted in the attempt its evaluation belongs to.
C27_AnswerOfSameAttempt ==
    cpc \in {"explain", "done", "raised"} =>
        \A k \in 1..Len(wrong_evals) : ShowsOwnAnswer(wrong_evals[k])

\* With at most one attempt per quiz the answers shown are the right ones.
C27_HoldsForOneAttemptPerQuiz ==
    (\A a, b \in 1..Len(attempts) : attempts[a].quiz_id = attempts[b].quiz_id => a = b)
        => C27_AnswerOfSameAttempt

(***************************************************************************)
(* Requests on one session: POST /sessions/{id}/quiz, /attempt, /insights. *)
(* Every request runs in its own database session (get_db) and in its own  *)
(* task of the event loop; the tasks interleave at the awaits.  A handler   *)
(* is two steps: everything up to the gateway call (the loads and the      *)
(* checks made on them), and everything after it (the rows added and the   *)
(* commit).  Each request keeps the Session object it loaded: nothing      *)
(* refreshes it before the commit.                                         *)
(***************************************************************************)

\* Outcomes of a gateway call as the routers see them: a result, or ValueError.
GatewayOutcomes == {"ok", "ValueError"}

\* The status column after the commit of a request that loaded `loaded` and
\* assigned `assigned`: the flush writes the column when the assignment changed
\* the loaded value, and leaves the stored value alone otherwise.
StatusAfterCommit(loaded, assigned, stored) ==
    IF assigned # loaded THEN assigned ELSE stored

Begin(kind, status, quiz) ==
    [kind |-> kind, pc |-> "awaiting", status |-> status, quiz |-> quiz, response |-> 0]

Finish(req, response) == [req EXCEPT !.pc = "done", !.response = response]

Reject(kind, status, response) ==
    [kind |-> kind, pc |-> "done", status |-> status, quiz |-> 0, response |-> response]

SessionInit ==
    /\ session_status = "pending_quiz"
    /\ quizzes = <<>>
    /\ session_attempts = <<>>
    /\ insights = 0
    /\ requests = [r \in Requests |-> [NoRequest EXCEPT !.pc = "free"]]
    /\ ScanIdle
    /\ AnIdle

\* generate_quiz up to the gateway call: load the session, 409 when completed.
GenerateQuizLoad(r) ==
    /\ requests[r].pc = "free"
    /\ requests' = [requests EXCEPT ![r] =
           IF session_status = "completed"
           THEN Reject("generate_quiz", session_status, 409)
           ELSE Begin("generate_quiz", session_status, 0)]
    /\ UNCHANGED <<session_status, quizzes, session_attempts, insights,
                   scanVars, anVars, cuVars>>

\* create_quiz_for_session after generate_quiz_questions: add the Quiz, set the
\* status to quiz_active, commit; a ValueError becomes 502 and stores nothing.
GenerateQuizStore(r) ==
    /\ requests[r].kind = "generate_quiz"
    /\ requests[r].pc = "awaiting"
    /\ \E outcome \in GatewayOutcomes :
         IF outcome = "ValueError"
         THEN /\ requests' = [requests EXCEPT ![r] = Finish(@, 502)]
              /\ UNCHANGED <<session_status, quizzes>>
         ELSE /\ quizzes' = Append(quizzes, Len(quizzes) + 1)
              /\ session_status' =
                     StatusAfterCommit(requests[r].status, "quiz_active", session_status)
              /\ requests' = [requests EXCEPT ![r] = Finish(@, 201)]
    /\ UNCHANGED <<session_attempts, insights, scanVars, anVars, cuVars>>

\* create_attempt up to the gateway call: load the session and its latest
\* quiz, 404 when there is none.  The status is not looked at.
CreateAttemptLoad(r) ==
    /\ requests[r].pc = "free"
    /\ requests' = [requests EXCEPT ![r] =
           IF quizzes = <<>>
           THEN Reject("create_attempt", session_status, 404)
           ELSE Begin("create_attempt", session_status, quizzes[Len(quizzes)])]
    /\ UNCHANGED <<session_status, quizzes, session_attempts, insights,
                   scanVars, anVars, cuVars>>

\* submit_attempt after evaluate_answers: add the Attempt, set the status to
\* completed, commit; a ValueError becomes 502 and stores nothing.
CreateAttemptStore(r) ==
    /\ requests[r].kind = "create_attempt"
    /\ requests[r].pc = "awaiting"
    /\ \E outcome \in GatewayOutcomes :
         IF outcome = "ValueError"
         THEN /\ requests' = [requests EXCEPT ![r] = Finish(@, 502)]
              /\ UNCHANGED <<session_status, session_attempts>>
         ELSE /\ session_attempts' = Append(session_attempts, requests[r].quiz)
              /\ session_status' =
                     StatusAfterCommit(requests[r].status, "completed", session_status)
              /\ requests' = [requests EXCEPT ![r] = Finish(@, 201)]
    /\ UNCHANGED <<quizzes, insights, scanVars, anVars, cuVars>>

\* generate_insights up to the gateway call: load the session, select the
\* existing Insight, 409 when there is one.
GenerateInsightsLoad(r) ==
    /\ requests[r].pc = "free"
    /\ requests' = [requests EXCEPT ![r] =
           IF insights > 0
           THEN Reject("generate_insights", session_status, 409)
           ELSE Begin("generate_insights", session_status, 0)]
    /\ UNCHANGED <<session_status, quizzes, session_attempts, insights,
                   scanVars, anVars, cuVars>>

\* generate_insights after extract_insights: add the Insight and commit; a
\* ValueError becomes 502 and stores nothing.
GenerateInsightsStore(r) ==
    /\ requests[r].kind = "generate_insights"
    /\ requests[r].pc = "awaiting"
    /\ \E outcome \in GatewayOutcomes :
         IF outcome = "ValueError"
         THEN /\ requests' = [requests EXCEPT ![r] = Finish(@, 502)]
              /\ UNCHANGED insights
         ELSE /\ insights' = insights + 1
              /\ requests' = [requests EXCEPT ![r] = Finish(@, 201)]
    /\ UNCHANGED <<session_status, quizzes, session_attempts, scanVars, anVars, cuVars>>

SessionNext ==
    \E r \in Requests :
        \/ GenerateQuizLoad(r)
        \/ GenerateQuizStore(r)
        \/ CreateAttemptLoad(r)
        \/ CreateAttemptStore(r)
        \/ GenerateInsightsLoad(r)
        \/ GenerateInsightsStore(r)

SpecSession == SessionInit /\ [][SessionNext]_vars

\* C28: in every reachable state, under every interleaving of generate-quiz
\* and submit-attempt requests, a session with at least one recorded attempt
\* has status 'completed'.
C28_AttemptImpliesCompleted ==
    session_attempts # <<>> => session_status = "completed"

\* C28, second half as a step property: a completed session never goes back
\* to 'quiz_active' or 'pending_quiz'.
C28_CompletedIsFinal ==
    [][session_status = "completed" => session_status' = "completed"]_vars

\* C28, what does hold: a generate-quiz request that finds the session
\* completed when it loads it is rejected with 409 and stores nothing.
C28_CompletedRejectedAtLoad ==
    [][\A r \in Requests :
          (/\ requests[r].pc = "free"
           /\ requests'[r].kind = "generate_quiz"
           /\ session_status = "completed")
          => /\ requests'[r].response = 409
             /\ requests'[r].pc = "done"
             /\ quizzes' = quizzes
             /\ session_status' = session_status]_vars

C28_RejectionReached ==
    \E r \in Requests :
        requests[r].kind = "generate_quiz" /\ requests[r].response = 409

\* C29: in every reachable state, under every interleaving of generate-insights
\* requests, the session has at most one Insight row.
C29_AtMostOneInsight == insights <= 1

\* C29, what does hold: a generate-insights request that finds an Insight when
\* it runs its select is rejected with 409 and stores nothing.
C29_ExistingRejectedAtLoad ==
    [][\A r \in Requests :
          (/\ requests[r].pc = "free"
           /\ requests'[r].kind = "generate_insights"
           /\ insights > 0)
          => /\ requests'[r].response = 409
             /\ requests'[r].pc = "done"
             /\ insights' = insights]_vars

C29_ConflictReached ==
    \E r \in Requests :
        requests[r].kind = "generate_insights" /\ requests[r].response = 409

(***************************************************************************)
(* Shape of a non-empty analytics result                                   *)
(***************************************************************************)

QuestionCounts(ts) == [k \in 1..Len(ts) |-> ts[k].question_count]

\* C30: in every non-empty analytics result the topics partition the
\* evaluations: total_questions_answered is the sum of question_count, every
\* evaluation's topic is listed, no topic is listed twice, every topic has
\* question_count >= 1 and 1 <= sessions_appeared_in <= question_count, and
\* blind_spots is the sub-list of topic_scores flagged is_blind_spot, in the
\* same order.
C30_TopicsPartitionEvaluations ==
    (apc = "done" /\ analytics.status = "ok" /\ attempts # <<>>) =>
        LET ts == analytics.topic_scores
            Flagged(t) == t.is_blind_spot
        IN  /\ analytics.total_questions_answered = Len(flat_evals)
            /\ analytics.total_questions_answered = SumSeq(QuestionCounts(ts))
            /\ \A i \in 1..Len(flat_evals) :
                  \E k \in 1..Len(ts) : ts[k].topic = flat_evals[i].topic
            /\ \A k, l \in 1..Len(ts) : ts[k].topic = ts[l].topic => k = l
            /\ \A k \in 1..Len(ts) :
                  /\ ts[k].question_count >= 1
                  /\ ts[k].sessions_appeared_in >= 1
                  /\ ts[k].sessions_appeared_in <= ts[k].question_count
                  /\ ts[k].question_count =
                        Cardinality({i \in 1..Len(flat_evals) :
                                        flat_evals[i].topic = ts[k].topic})
            /\ analytics.blind_spots = SelectSeq(ts, Flagged)

\* C30 witness: a result with several topics of which some but not all are
\* blind spots, and a topic seen in fewer sessions than it has questions.
C30_Witness ==
    /\ apc = "done"
    /\ analytics.status = "ok"
    /\ Len(analytics.topic_scores) >= 2
    /\ analytics.blind_spots # <<>>
    /\ Len(analytics.blind_spots) < Len(analytics.topic_scores)
    /\ \E k \in 1..Len(analytics.topic_scores) :
          analytics.topic_scores[k].sessions_appeared_in
              < analytics.topic_scores[k].question_count

====
